---- MODULE Spec2Model ----
(***************************************************************************)
(* Model of src/app.py: the per-frame asymmetry analysis                   *)
(* (analyze_face_asymmetry_mediapipe, get_asymmetry_assessment), the       *)
(* symmetry image composer (create_symmetry_images_simple) and the         *)
(* WebSocket handler (websocket_endpoint) with its module-level state      *)
(* captured_images / last_frame_data.                                      *)
(*                                                                         *)
(* Units.  Pixel coordinates are integers.  Python floats are kept as      *)
(* integers in hundredths ("centi"): every float the analysis produces is  *)
(* a multiple of 0.5.  Values passed through round(x, 1) are kept in       *)
(* tenths.  A normalized detector coordinate is the rational n / NormDen   *)
(* (the detector emits float32 values, so coord * dimension is exact in    *)
(* double precision and int() sees the exact product).                     *)
(*                                                                         *)
(* Python dicts are functions on strings; d.update(o) is Update(d, o).     *)
(* Python lists [x, y] are tuples <<x, y>> (p[0] is p[1] here, p[1] is     *)
(* p[2]).  The user-facing Korean strings are written in English.          *)
(***************************************************************************)
EXTENDS Integers, Sequences, FiniteSets, TLC

VARIABLES
    USE_MEDIAPIPE,    \* app.py:26/29, fixed at import time
    captured_images,  \* app.py:33, module-level dict
    last_frame_data,  \* app.py:34, module-level dict {"frame", "landmarks"}
    pc,               \* per connection: where its websocket_endpoint coroutine is
    conn,             \* per connection: TRUE while the client side is open
    req,              \* per connection: the message being answered
    out,              \* per connection: the response handed to send_text
    hist,             \* per connection: its most recent successful capture (history)
    args,             \* arguments of a direct call of a pure function
    ret               \* its return value

vars == <<USE_MEDIAPIPE, captured_images, last_frame_data, pc, conn, req, out,
          hist, args, ret>>

(***************************************************************************)
(* Bounds of the model and program constants                               *)
(***************************************************************************)
NormDen == 1024        \* normalized coordinates are n / NormDen
NumSessions == 2       \* concurrent WebSocket connections

MinLandmarks == 468    \* app.py:38
LEFT_EYE_OUTER == 33
RIGHT_EYE_OUTER == 263
NOSE_TIP == 1
CHIN == 18
LEFT_MOUTH == 61
RIGHT_MOUTH == 291
BandWidth == 100       \* app.py:155, app.py:163
JpegQuality == 75      \* app.py:171

None == [none |-> TRUE]
EmptyDict == [k \in {} |-> 0]

(***************************************************************************)
(* Arithmetic helpers                                                      *)
(***************************************************************************)
Abs(x) == IF x < 0 THEN -x ELSE x
Min(a, b) == IF a < b THEN a ELSE b
Max(a, b) == IF a > b THEN a ELSE b

\* Python int(a / b) for b > 0: truncation toward zero.
PyInt(a, b) == IF a >= 0 THEN a \div b ELSE -((-a) \div b)

\* Python round(float(x), 1) for x given in hundredths; the result is in
\* tenths.  Round half to even, symmetric in the sign.
Round1Nat(c) ==
    LET q == c \div 10
        r == c % 10
    IN  IF r < 5 THEN q
        ELSE IF r > 5 THEN q + 1
        ELSE IF q % 2 = 0 THEN q ELSE q + 1

Round1(c) == IF c >= 0 THEN Round1Nat(c) ELSE -Round1Nat(-c)

\* dict.update: the keys of o overwrite those of d.
Update(d, o) == o @@ d

(***************************************************************************)
(* get_asymmetry_assessment (app.py:133-143); score in hundredths          *)
(***************************************************************************)
\* get_asymmetry_assessment with `<=` where line 140 has `<`
get_asymmetry_assessment_le(score) ==
    IF score < 500 THEN "Very Symmetrical"
    ELSE IF score < 1000 THEN "Good Symmetry"
    ELSE IF score < 2000 THEN "Slight Asymmetry"
    ELSE IF score <= 3000 THEN "Moderate Asymmetry"
    ELSE "Significant Asymmetry"

get_asymmetry_assessment(score) ==
    IF score < 500 THEN "Very Symmetrical"
    ELSE IF score < 1000 THEN "Good Symmetry"
    ELSE IF score < 2000 THEN "Slight Asymmetry"
    ELSE IF score < 3000 THEN "Moderate Asymmetry"
    ELSE "Significant Asymmetry"

(***************************************************************************)
(* analyze_face_asymmetry_mediapipe (app.py:36-131)                        *)
(* landmarks is None or [n |-> length, pt |-> index -> [x, y]]             *)
(***************************************************************************)
\* line 38 with the bound off by one
InsufficientLandmarks_off_by_one(landmarks) ==
    \/ landmarks = None
    \/ landmarks.n = 0
    \/ landmarks.n < MinLandmarks - 1

\* len(landmarks) < 468, and `not landmarks` for None and for an empty list
InsufficientLandmarks(landmarks) ==
    \/ landmarks = None
    \/ landmarks.n = 0
    \/ landmarks.n < MinLandmarks

\* round(a / b) for b > 0: to the nearest integer, ties to the even one
PyRound(a, b) ==
    LET f == a \div b
        r2 == 2 * (a % b)
    IN  IF r2 < b THEN f
        ELSE IF r2 > b THEN f + 1
        ELSE IF f % 2 = 0 THEN f ELSE f + 1

\* to_pixel with round() where line 51 has int()
to_pixel_round(landmark, image_width, image_height) ==
    << PyRound(landmark.x * image_width, NormDen),
       PyRound(landmark.y * image_height, NormDen) >>

\* app.py:50-51
to_pixel(landmark, image_width, image_height) ==
    << PyInt(landmark.x * image_width, NormDen),
       PyInt(landmark.y * image_height, NormDen) >>

\* line 100 without its min(100, ...)
total_score_unclamped(total_asym_value) == total_asym_value * 3

\* app.py:100
total_score_of(total_asym_value) == Min(100 * 100, total_asym_value * 3)

\* lines 87-92 with the upper end of the face-width range excluded
capture_ready_of_exclusive_width(face_width, center_alignment_score, position_offset_x, face_stability) ==
    /\ 120 <= face_width
    /\ face_width < 200
    /\ center_alignment_score < 15 * 100
    /\ position_offset_x < 60 * 100
    /\ face_stability < 25

\* app.py:87-92; face_width and face_stability in pixels, the two offsets in
\* hundredths of a pixel
capture_ready_of(face_width, center_alignment_score, position_offset_x, face_stability) ==
    /\ 120 <= face_width
    /\ face_width <= 200
    /\ center_alignment_score < 15 * 100
    /\ position_offset_x < 60 * 100
    /\ face_stability < 25

distance_feedback_of(face_width) ==
    IF face_width < 120 THEN "move closer"
    ELSE IF face_width > 200 THEN "move back"
    ELSE "good distance"

\* lines 103-104 with the tie given to the first label
direction_of_tie_right(diff) ==
    IF diff <= 0 THEN "right higher"
    ELSE IF diff > 0 THEN "left higher" ELSE "symmetrical"

\* app.py:103-104: eye_direction and mouth_direction
direction_of(diff) ==
    IF diff < 0 THEN "right higher"
    ELSE IF diff > 0 THEN "left higher" ELSE "symmetrical"

\* app.py:105: nose_direction
nose_direction_of(nose_center_offset) ==
    IF nose_center_offset > 0 THEN "shifted left"
    ELSE IF nose_center_offset < 0 THEN "shifted right" ELSE "symmetrical"

analyze_face_asymmetry_mediapipe(landmarks, image_width, image_height) ==
    IF InsufficientLandmarks(landmarks) THEN None
    ELSE
    LET left_eye    == to_pixel(landmarks.pt[LEFT_EYE_OUTER], image_width, image_height)
        right_eye   == to_pixel(landmarks.pt[RIGHT_EYE_OUTER], image_width, image_height)
        nose_tip    == to_pixel(landmarks.pt[NOSE_TIP], image_width, image_height)
        chin        == to_pixel(landmarks.pt[CHIN], image_width, image_height)
        left_mouth  == to_pixel(landmarks.pt[LEFT_MOUTH], image_width, image_height)
        right_mouth == to_pixel(landmarks.pt[RIGHT_MOUTH], image_width, image_height)
        eye_diff    == left_eye[2] - right_eye[2]
        mouth_diff  == left_mouth[2] - right_mouth[2]
        \* hundredths from here on
        face_center_x      == (left_eye[1] + right_eye[1]) * 50
        nose_center_offset == nose_tip[1] * 100 - face_center_x
        face_width         == Abs(right_eye[1] - left_eye[1])
        screen_center_x    == image_width * 50
        position_offset_x  == Abs(face_center_x - screen_center_x)
        center_alignment_score == Abs(nose_center_offset)
        face_stability     == Abs(eye_diff) + Abs(mouth_diff)
        eye_asymmetry_val  == Abs(eye_diff)
        mouth_asymmetry_val == Abs(mouth_diff)
        nose_asymmetry_val == Abs(nose_center_offset)
        total_asym_value   == eye_asymmetry_val * 100 + mouth_asymmetry_val * 100
                              + nose_asymmetry_val
        total_score        == total_score_of(total_asym_value)
    IN  [ eye_diff     |-> Round1(-eye_diff * 100),
          mouth_diff   |-> Round1(-mouth_diff * 100),
          nose_offset  |-> Round1(-nose_center_offset),
          eye_asymmetry_val   |-> Round1(eye_asymmetry_val * 100),
          mouth_asymmetry_val |-> Round1(mouth_asymmetry_val * 100),
          nose_asymmetry_val  |-> Round1(nose_asymmetry_val),
          eye_direction   |-> direction_of(eye_diff),
          mouth_direction |-> direction_of(mouth_diff),
          nose_direction  |-> nose_direction_of(nose_center_offset),
          total_score  |-> Round1(total_score),
          assessment   |-> get_asymmetry_assessment(total_score),
          landmarks_coords |-> <<left_eye, right_eye, nose_tip, chin, left_mouth, right_mouth>>,
          capture_ready |-> capture_ready_of(face_width, center_alignment_score,
                                             position_offset_x, face_stability),
          center_alignment_score |-> Round1(center_alignment_score),
          distance_feedback |-> distance_feedback_of(face_width),
          face_width     |-> face_width,
          face_stability |-> Round1(face_stability * 100),
          accurate_center_x |-> face_center_x ]

AnalysisKeys ==
    {"eye_diff", "mouth_diff", "nose_offset", "eye_asymmetry_val",
     "mouth_asymmetry_val", "nose_asymmetry_val", "eye_direction",
     "mouth_direction", "nose_direction", "total_score", "assessment",
     "landmarks_coords", "capture_ready", "center_alignment_score",
     "distance_feedback", "face_width", "face_stability", "accurate_center_x"}

(***************************************************************************)
(* create_symmetry_images_simple (app.py:145-178)                          *)
(* A frame is [height |-> h, cols |-> <<column 0, ..., column w-1>>]; the  *)
(* composer only moves whole columns, so a column is one value.            *)
(***************************************************************************)
ImageKeys == {"original_image", "left_symmetric_image", "right_symmetric_image"}

\* numpy index i of an axis of length w: negative indices count from the end
NpIndex(i, w) == IF i < 0 THEN i + w ELSE i

GetCol(cols, i) == cols[NpIndex(i, Len(cols)) + 1]
SetCol(cols, i, v) == [cols EXCEPT ![NpIndex(i, Len(cols)) + 1] = v]

\* cv2.flip(img, 1)
flip(cols) == [i \in 1..Len(cols) |-> cols[Len(cols) + 1 - i]]

\* line 157 without its lower bound
left_guard_no_lower_bound(mirror_x, center_x, w) == mirror_x < center_x

\* app.py:157
left_guard(mirror_x, center_x, w) == 0 <= mirror_x /\ mirror_x < center_x

\* app.py:165
right_guard(mirror_x, center_x, w) == center_x <= mirror_x /\ mirror_x < w

\* app.py:156-158: the body of the loop for one x
left_step(cols, x, center_x) ==
    LET mirror_x == 2 * center_x - x
    IN  IF left_guard(mirror_x, center_x, Len(cols))
        THEN SetCol(cols, x, GetCol(cols, mirror_x))
        ELSE cols

\* app.py:164-166: the body of the loop for one x
right_step(cols, x, center_x) ==
    LET mirror_x == 2 * center_x - x
    IN  IF right_guard(mirror_x, center_x, Len(cols))
        THEN SetCol(cols, x, GetCol(cols, mirror_x))
        ELSE cols

\* app.py:155-158: for x in range(x, stop), in increasing x: the first half
\* of the range is run to its end, then the second half on its result.  (A
\* column assignment keeps the width of the array; testing it makes the
\* first half a value before the second half starts.)
RECURSIVE left_loop(_, _, _, _)
left_loop(cols, x, stop, center_x) ==
    IF x >= stop THEN cols
    ELSE IF stop - x = 1 THEN left_step(cols, x, center_x)
    ELSE LET mid == x + (stop - x) \div 2
             first == left_loop(cols, x, mid, center_x)
         IN  IF Len(first) = Len(cols)
             THEN left_loop(first, mid, stop, center_x)
             ELSE first

\* app.py:163-166: for x in range(x, stop), in increasing x
RECURSIVE right_loop(_, _, _, _)
right_loop(cols, x, stop, center_x) ==
    IF x >= stop THEN cols
    ELSE IF stop - x = 1 THEN right_step(cols, x, center_x)
    ELSE LET mid == x + (stop - x) \div 2
             first == right_loop(cols, x, mid, center_x)
         IN  IF Len(first) = Len(cols)
             THEN right_loop(first, mid, stop, center_x)
             ELSE first

\* app.py:155-158: the column indices line 158 reads (mirror_x) and writes (x)
left_accesses(w, center_x) ==
    UNION { {x, 2 * center_x - x} :
              x \in { x \in center_x .. (Min(w, center_x + BandWidth) - 1) :
                         left_guard(2 * center_x - x, center_x, w) } }

\* app.py:163-166: the column indices line 166 reads (mirror_x) and writes (x)
right_accesses(w, center_x) ==
    UNION { {x, 2 * center_x - x} :
              x \in { x \in Max(0, center_x - BandWidth) .. (center_x - 1) :
                         right_guard(2 * center_x - x, center_x, w) } }

left_symmetric_of(frame, center_x) ==
    LET w == Len(frame.cols)
    IN  [frame EXCEPT !.cols = flip(left_loop(frame.cols, center_x,
                                              Min(w, center_x + BandWidth), center_x))]

right_symmetric_of(frame, center_x) ==
    LET w == Len(frame.cols)
    IN  [frame EXCEPT !.cols = flip(right_loop(frame.cols, Max(0, center_x - BandWidth),
                                               center_x, center_x))]

original_of(frame) == [frame EXCEPT !.cols = flip(frame.cols)]

\* app.py:170-172: JPEG at quality 75, then base64.  The encoding is a
\* deterministic function of the pixels; its lossy quantisation is below
\* the resolution of this model, which keeps the pixels it was made from.
encode_image(img) == [format |-> "jpeg_base64", quality |-> JpegQuality, image |-> img]

\* face_center_x in hundredths; int() truncates toward zero
create_symmetry_images_simple(frame, face_center_x) ==
    LET center_x == PyInt(face_center_x, 100)
    IN  [ original_image        |-> encode_image(original_of(frame)),
          left_symmetric_image  |-> encode_image(left_symmetric_of(frame, center_x)),
          right_symmetric_image |-> encode_image(right_symmetric_of(frame, center_x)) ]

(***************************************************************************)
(* websocket_endpoint (app.py:682-746)                                     *)
(***************************************************************************)
Sessions == 1..NumSessions

EmptyCache == [frame |-> None, landmarks |-> None]

NothingToCapture == [error |-> "nothing to capture"]          \* app.py:705
AnalysisFailed   == [error |-> "face analysis failed"]        \* app.py:730
NoFaceFound      == [error |-> "no face found"]               \* app.py:732
MediaPipeMissing == [error |-> "MediaPipe load failed"]       \* app.py:734
ProcessingError  == [error |-> "processing error"]            \* app.py:738

CaptureRequest == [kind |-> "manual_capture_request"]

\* The six semantic points of a landmark list, by index.
Points(le, re, nose, chin, lm, rm) ==
    (LEFT_EYE_OUTER :> le) @@ (RIGHT_EYE_OUTER :> re) @@ (NOSE_TIP :> nose)
    @@ (CHIN :> chin) @@ (LEFT_MOUTH :> lm) @@ (RIGHT_MOUTH :> rm)

Pt(x, y) == [x |-> x, y |-> y]

\* Two frames the handler can be sent, with what the detector finds in them.
FrameA == [height |-> 3, cols |-> <<11, 12, 13, 14>>]
FrameB == [height |-> 3, cols |-> <<21, 22, 23, 24, 25>>]
PointsA == Points(Pt(256, 342), Pt(768, 342), Pt(512, 512), Pt(512, 1000),
                  Pt(300, 700), Pt(700, 700))
PointsB == Points(Pt(0, 342), Pt(820, 700), Pt(512, 512), Pt(512, 1000),
                  Pt(300, 342), Pt(700, 700))

\* A frame message: whether lines 709-711 decode it, the decoded frame, and
\* results.multi_face_landmarks of the detector (None: no face).
FrameMsg(decodable, frame, faces) ==
    [kind |-> "frame", decodable |-> decodable, frame |-> frame, faces |-> faces]

GoodMsgs ==
    { FrameMsg(TRUE, FrameA, [n |-> MinLandmarks + 10, pt |-> PointsA]),
      FrameMsg(TRUE, FrameB, [n |-> MinLandmarks, pt |-> PointsB]) }

ShortMsgs ==
    { FrameMsg(TRUE, FrameB, [n |-> k, pt |-> PointsB]) : k \in {0, MinLandmarks - 1} }

FrameMsgs ==
    GoodMsgs \cup ShortMsgs
    \cup { FrameMsg(FALSE, None, None), FrameMsg(TRUE, FrameA, None) }

\* frame.shape[1], frame.shape[0]
WidthOf(frame) == Len(frame.cols)
HeightOf(frame) == frame.height

\* manual_capture without the check of line 693: composing from the empty
\* cache raises
manual_capture_unguarded(lfd, ci, encodeOk) ==
    IF lfd.frame # None /\ lfd.landmarks # None /\ encodeOk
    THEN LET images == Update(ci, create_symmetry_images_simple(
                                      lfd.frame, lfd.landmarks["accurate_center_x"]))
         IN  [raised |-> FALSE, images |-> images,
              response |-> Update(lfd.landmarks, images)]
    ELSE [raised |-> TRUE, images |-> ci, response |-> None]

\* app.py:692-706, up to the send.  encodeOk: whether the image library
\* calls of create_symmetry_images_simple return (they raise on a codec or
\* memory error).  raised: an exception left the branch.
manual_capture(lfd, ci, encodeOk) ==
    IF lfd.frame # None /\ lfd.landmarks # None
    THEN IF encodeOk
         THEN LET symmetry_images ==
                      create_symmetry_images_simple(lfd.frame,
                                                    lfd.landmarks["accurate_center_x"])
                  images == Update(ci, symmetry_images)
              IN  [raised |-> FALSE, images |-> images,
                   response |-> Update(lfd.landmarks, images)]
         ELSE [raised |-> TRUE, images |-> ci, response |-> None]
    ELSE [raised |-> FALSE, images |-> ci, response |-> NothingToCapture]

\* cache_result without line 722 once a frame is cached
cache_result_stale_frame(lfd, frame, result, ci) ==
    [frame |-> IF lfd.frame = None THEN frame ELSE lfd.frame,
     landmarks |-> Update(result, ci)]

\* app.py:721-726: result is stored in last_frame_data["landmarks"] and then
\* updated in place with captured_images, so the cached dict is updated too.
cache_result(lfd, frame, result, ci) ==
    [frame |-> frame, landmarks |-> Update(result, ci)]

\* process_frame with the cache dropped when no face is found
process_frame_drops_cache(msg, lfd, ci, use_mediapipe) ==
    IF ~msg.decodable
    THEN [at |-> "send_except", cache |-> lfd, response |-> ProcessingError]
    ELSE IF ~use_mediapipe
    THEN [at |-> "send_frame", cache |-> lfd, response |-> MediaPipeMissing]
    ELSE IF msg.faces = None
    THEN [at |-> "send_frame", cache |-> EmptyCache, response |-> NoFaceFound]
    ELSE LET result == analyze_face_asymmetry_mediapipe(
                           msg.faces, WidthOf(msg.frame), HeightOf(msg.frame))
         IN  IF result # None
             THEN [at |-> "send_frame",
                   cache |-> cache_result(lfd, msg.frame, result, ci),
                   response |-> Update(result, ci)]
             ELSE [at |-> "send_frame", cache |-> lfd, response |-> AnalysisFailed]

\* app.py:708-738, up to the send.  at: the send_text that is reached.
process_frame(msg, lfd, ci, use_mediapipe) ==
    IF ~msg.decodable
    THEN [at |-> "send_except", cache |-> lfd, response |-> ProcessingError]
    ELSE IF ~use_mediapipe
    THEN [at |-> "send_frame", cache |-> lfd, response |-> MediaPipeMissing]
    ELSE IF msg.faces = None
    THEN [at |-> "send_frame", cache |-> lfd, response |-> NoFaceFound]
    ELSE LET result == analyze_face_asymmetry_mediapipe(
                           msg.faces, WidthOf(msg.frame), HeightOf(msg.frame))
         IN  IF result # None
             THEN [at |-> "send_frame",
                   cache |-> cache_result(lfd, msg.frame, result, ci),
                   response |-> Update(result, ci)]
             ELSE [at |-> "send_frame", cache |-> lfd, response |-> AnalysisFailed]

\* A frame message that reaches lines 722-723.
Analysed(msg, use_mediapipe) ==
    /\ msg.decodable
    /\ use_mediapipe
    /\ msg.faces # None
    /\ analyze_face_asymmetry_mediapipe(msg.faces, WidthOf(msg.frame),
                                        HeightOf(msg.frame)) # None

SendStates == {"send_capture", "send_frame", "send_except"}

sessionVars == <<USE_MEDIAPIPE, captured_images, last_frame_data, pc, conn, req, out, hist>>
callVars == <<args, ret>>

InitSessions ==
    /\ USE_MEDIAPIPE \in BOOLEAN
    /\ captured_images = EmptyDict
    /\ last_frame_data = EmptyCache
    /\ pc = [s \in Sessions |-> "idle"]
    /\ conn = [s \in Sessions |-> FALSE]
    /\ req = [s \in Sessions |-> None]
    /\ out = [s \in Sessions |-> None]
    /\ hist = [s \in Sessions |-> None]

\* the finally block without line 744
Finally_keeps_images(s) ==
    /\ captured_images' = captured_images
    /\ last_frame_data' = EmptyCache
    /\ pc' = [pc EXCEPT ![s] = "idle"]
    /\ conn' = [conn EXCEPT ![s] = FALSE]
    /\ req' = [req EXCEPT ![s] = None]
    /\ out' = [out EXCEPT ![s] = None]
    /\ hist' = [hist EXCEPT ![s] = None]

\* app.py:742-746: the finally block; the coroutine ends and the server
\* closes the connection
Finally(s) ==
    /\ captured_images' = EmptyDict
    /\ last_frame_data' = EmptyCache
    /\ pc' = [pc EXCEPT ![s] = "idle"]
    /\ conn' = [conn EXCEPT ![s] = FALSE]
    /\ req' = [req EXCEPT ![s] = None]
    /\ out' = [out EXCEPT ![s] = None]
    /\ hist' = [hist EXCEPT ![s] = None]

\* app.py:685: a client connects and the coroutine reaches receive_text
Connect(s) ==
    /\ pc[s] = "idle"
    /\ pc' = [pc EXCEPT ![s] = "receive"]
    /\ conn' = [conn EXCEPT ![s] = TRUE]
    /\ UNCHANGED <<USE_MEDIAPIPE, captured_images, last_frame_data, req, out, hist,
                   callVars>>

\* the client closes its side of the connection
ClientClose(s) ==
    /\ pc[s] # "idle"
    /\ conn[s]
    /\ conn' = [conn EXCEPT ![s] = FALSE]
    /\ UNCHANGED <<USE_MEDIAPIPE, captured_images, last_frame_data, pc, req, out,
                   hist, callVars>>

\* app.py:690, 740-746: receive_text raises on a closed connection
ReceiveDisconnect(s) ==
    /\ pc[s] = "receive"
    /\ ~conn[s]
    /\ Finally(s)
    /\ UNCHANGED <<USE_MEDIAPIPE, callVars>>

\* app.py:690-706: "manual_capture_request" is received.  record: whether
\* the history variable hist follows the step (it is no state of the program).
CaptureRequestStep(s, record) ==
    /\ pc[s] = "receive"
    /\ conn[s]
    /\ \E encodeOk \in BOOLEAN :
         LET r == manual_capture(last_frame_data, captured_images, encodeOk)
         IN  IF r.raised
             THEN Finally(s)
             ELSE /\ captured_images' = r.images
                  /\ conn' = conn
                  /\ pc' = [pc EXCEPT ![s] = "send_capture"]
                  /\ req' = [req EXCEPT ![s] = CaptureRequest]
                  /\ out' = [out EXCEPT ![s] = r.response]
                  /\ hist' = IF ~record \/ r.response = NothingToCapture THEN hist
                             ELSE [hist EXCEPT ![s] =
                                     [response |-> r.response, images |-> r.images,
                                      cache |-> last_frame_data, clean |-> TRUE]]
                  /\ UNCHANGED last_frame_data
    /\ UNCHANGED <<USE_MEDIAPIPE, callVars>>

OnCaptureRequest(s) == CaptureRequestStep(s, FALSE)

\* app.py:690, 708-738: a frame message is received
FrameStep(s, record) ==
    /\ pc[s] = "receive"
    /\ conn[s]
    /\ \E msg \in FrameMsgs :
         LET r == process_frame(msg, last_frame_data, captured_images, USE_MEDIAPIPE)
         IN  /\ last_frame_data' = r.cache
             /\ pc' = [pc EXCEPT ![s] = r.at]
             /\ req' = [req EXCEPT ![s] = msg]
             /\ out' = [out EXCEPT ![s] = r.response]
             /\ hist' = IF record /\ Analysed(msg, USE_MEDIAPIPE)
                        THEN [t \in Sessions |->
                                 IF hist[t] = None THEN None
                                 ELSE [response |-> None, images |-> hist[t].images,
                                       cache |-> None, clean |-> FALSE]]
                        ELSE hist
    /\ UNCHANGED <<USE_MEDIAPIPE, captured_images, conn, callVars>>

OnFrame(s) == FrameStep(s, FALSE)

\* app.py:703/705/728-734/738: send_text returns, back to receive_text
SendOk(s) ==
    /\ pc[s] \in SendStates
    /\ conn[s]
    /\ pc' = [pc EXCEPT ![s] = "receive"]
    /\ req' = [req EXCEPT ![s] = None]
    /\ out' = [out EXCEPT ![s] = None]
    /\ UNCHANGED <<USE_MEDIAPIPE, captured_images, last_frame_data, conn, hist, callVars>>

\* app.py:728-738: send_text raises inside the inner try; the handler of
\* line 736 sends the processing error
SendFailInTry(s) ==
    /\ pc[s] = "send_frame"
    /\ ~conn[s]
    /\ pc' = [pc EXCEPT ![s] = "send_except"]
    /\ out' = [out EXCEPT ![s] = ProcessingError]
    /\ UNCHANGED <<USE_MEDIAPIPE, captured_images, last_frame_data, conn, req, hist,
                   callVars>>

\* app.py:703/705/738, 740-746: send_text raises outside the inner try
SendFail(s) ==
    /\ pc[s] \in {"send_capture", "send_except"}
    /\ ~conn[s]
    /\ Finally(s)
    /\ UNCHANGED <<USE_MEDIAPIPE, callVars>>

Init ==
    /\ InitSessions
    /\ args = None
    /\ ret = None

Next ==
    \E s \in Sessions :
        \/ Connect(s)
        \/ ClientClose(s)
        \/ ReceiveDisconnect(s)
        \/ OnCaptureRequest(s)
        \/ OnFrame(s)
        \/ SendOk(s)
        \/ SendFailInTry(s)
        \/ SendFail(s)

Spec == Init /\ [][Next]_vars

\* The same program, with hist recording each connection's most recent
\* successful capture: its response, the state it left, and whether a frame
\* has been analysed since.
RecordCaptureRequest(s) == CaptureRequestStep(s, TRUE)
RecordFrame(s) == FrameStep(s, TRUE)

NextHist ==
    \E s \in Sessions :
        \/ Connect(s)
        \/ ClientClose(s)
        \/ ReceiveDisconnect(s)
        \/ RecordCaptureRequest(s)
        \/ RecordFrame(s)
        \/ SendOk(s)
        \/ SendFailInTry(s)
        \/ SendFail(s)

SpecHist == Init /\ [][NextHist]_vars

(***************************************************************************)
(* Direct calls of the pure functions, over a grid of inputs               *)
(***************************************************************************)
\* Normalized coordinates (numerators over NormDen).  On a 640x480 frame
\* they land on and next to the thresholds of the analysis.
LeftEyeXs  == {160, 352, 354, 448}
RightEyeXs == {480, 544, 672, 674, 767, 768}
NoseXs     == {-3, 320, 448, 488, 490, 512, 535, 536, 608, 632}
LeftEyeYs  == {427}
RightEyeYs == {374, 376, 406, 425, 427, 429, 453}
LeftMouthYs == {640}
RightMouthYs == {619, 638, 640, 643, 662}
FrameSizes == { <<640, 480>>, <<1280, 720>>, <<4, 3>> }
ValidCounts == {MinLandmarks, MinLandmarks + 10}
ShortCounts == {0, 1, MinLandmarks - 1}
\* scores handed to get_asymmetry_assessment, in hundredths
ScoreInputs == {0, 499, 500, 501, 999, 1000, 1001, 1999, 2000, 2001,
                2999, 3000, 3001, 9999, 10000}

LandmarkInputs ==
    { [n |-> n, pt |-> Points(Pt(lx, ly), Pt(rx, ry), Pt(nx, 448), Pt(320, 854),
                              Pt(240, ny), Pt(400, my))] :
        n \in ValidCounts, lx \in LeftEyeXs, ly \in LeftEyeYs, rx \in RightEyeXs,
        ry \in RightEyeYs, nx \in NoseXs, ny \in LeftMouthYs, my \in RightMouthYs }
    \cup { [n |-> n, pt |-> PointsA] : n \in ShortCounts }
    \cup { None }

AnalyzeArgs ==
    { [fn |-> "analyze", landmarks |-> l, image_width |-> sz[1], image_height |-> sz[2]] :
        l \in LandmarkInputs, sz \in FrameSizes }

AssessArgs == { [fn |-> "assess", score |-> c] : c \in ScoreInputs }

\* Frames handed to the composer: narrow ones and ones wider than the band;
\* columns all different, or left-right symmetric (column i = column w-1-i).
FrameWidths == {5, 6, 205, 206}
ComposeFrames ==
    { [height |-> 2, cols |-> SubSeq([i \in 1..w |-> 10 + i], 1, w)] : w \in FrameWidths }
    \cup { [height |-> 2, cols |-> SubSeq([i \in 1..w |-> Min(i, w + 1 - i)], 1, w)] :
             w \in FrameWidths }

\* face_center_x values (hundredths) for a frame of width w: below 0, inside
\* the frame, its midpoint, its last column, at and beyond its width.
ComposeAxes(w) ==
    { -30000, -300, -50, 0, 100, 250, (w - 1) * 50, w * 50, (w - 1) * 100,
      w * 100, (w + 3) * 100, (w + BandWidth + 5) * 100 }

ComposeArgs ==
    { [fn |-> "compose", frame |-> f, face_center_x |-> a] :
        f \in ComposeFrames, a \in UNION { ComposeAxes(w) : w \in FrameWidths } }

InitCalls ==
    /\ InitSessions
    /\ USE_MEDIAPIPE
    /\ args \in AnalyzeArgs \cup AssessArgs \cup ComposeArgs
    /\ ret = None

CallAnalyze ==
    /\ args # None
    /\ args.fn = "analyze"
    /\ ret = None
    /\ ret' = [value |-> analyze_face_asymmetry_mediapipe(
                             args.landmarks, args.image_width, args.image_height)]
    /\ UNCHANGED <<sessionVars, args>>

CallAssessment ==
    /\ args # None
    /\ args.fn = "assess"
    /\ ret = None
    /\ ret' = [value |-> get_asymmetry_assessment(args.score)]
    /\ UNCHANGED <<sessionVars, args>>

CallCompose ==
    /\ args # None
    /\ args.fn = "compose"
    /\ ret = None
    /\ ret' = [value |-> create_symmetry_images_simple(args.frame, args.face_center_x)]
    /\ UNCHANGED <<sessionVars, args>>

NextCalls == CallAnalyze \/ CallAssessment \/ CallCompose

SpecCalls == InitCalls /\ [][NextCalls]_vars

(***************************************************************************)
(* Claims about the analysis (checked under SpecCalls)                     *)
(***************************************************************************)
AnalyzeReturned ==
    /\ args # None
    /\ args.fn = "analyze"
    /\ ret # None

ValidCall ==
    /\ AnalyzeReturned
    /\ args.landmarks # None
    /\ args.landmarks.n >= MinLandmarks

\* |eye_diff| + |mouth_diff| + |nose_offset_raw| in hundredths, from the six
\* pixel points the result reports
RawAsymmetry(coords) ==
    LET left_eye == coords[1]
        right_eye == coords[2]
        nose_tip == coords[3]
        left_mouth == coords[5]
        right_mouth == coords[6]
    IN  100 * Abs(left_eye[2] - right_eye[2])
        + 100 * Abs(left_mouth[2] - right_mouth[2])
        + Abs(100 * nose_tip[1] - 50 * (left_eye[1] + right_eye[1]))

\* C8: for every landmark set with at least 468 points and every frame size,
\* analyze returns a result whose total_score lies in [0, 100] and equals
\* min(100, 3 * (|eye_diff| + |mouth_diff| + |nose_offset_raw|)).
C8_TotalScoreClamped ==
    ValidCall =>
        /\ ret.value # None
        /\ ret.value.total_score >= 0
        /\ ret.value.total_score <= 1000
        /\ ret.value.total_score * 10 =
               Min(10000, 3 * RawAsymmetry(ret.value.landmarks_coords))

\* a valid call whose unclamped score exceeds 100 and is reported as 100
C8_Witness ==
    /\ ValidCall
    /\ ret.value # None
    /\ 3 * RawAsymmetry(ret.value.landmarks_coords) > 10000
    /\ ret.value.total_score = 1000

\* the band of a score given in tenths, as the specification lists the bands
BandOfTenths(t) ==
    CASE t < 50 -> "Very Symmetrical"
      [] t >= 50 /\ t < 100 -> "Good Symmetry"
      [] t >= 100 /\ t < 200 -> "Slight Asymmetry"
      [] t >= 200 /\ t < 300 -> "Moderate Asymmetry"
      [] t >= 300 -> "Significant Asymmetry"

UpperBandAtBoundary(score) ==
    CASE score = 500 -> "Good Symmetry"
      [] score = 1000 -> "Slight Asymmetry"
      [] score = 2000 -> "Moderate Asymmetry"
      [] score = 3000 -> "Significant Asymmetry"

\* C9: the assessment returned by analyze is the band of the reported
\* (one-decimal) total_score; get_asymmetry_assessment puts each score in
\* exactly the band <5, <10, <20, <30, else, with the boundary scores 5, 10,
\* 20 and 30 in the upper band.
C9_AssessmentIsBandOfReportedScore ==
    /\ ValidCall =>
          /\ ret.value # None
          /\ ret.value.assessment = BandOfTenths(ret.value.total_score)
    /\ (args # None /\ args.fn = "assess" /\ ret # None) =>
          /\ args.score % 10 = 0 => ret.value = BandOfTenths(args.score \div 10)
          /\ args.score < 500 => ret.value = "Very Symmetrical"
          /\ args.score \in {500, 1000, 2000, 3000} =>
                ret.value = UpperBandAtBoundary(args.score)

\* the scenario of the specification: eyes level, mouth corners 10 px apart,
\* nose centred, total 30.0, labelled significant
C9_Witness ==
    /\ ValidCall
    /\ ret.value # None
    /\ ret.value.landmarks_coords =
          << <<100, 200>>, <<300, 200>>, <<200, 210>>, <<200, 400>>,
             <<150, 300>>, <<250, 310>> >>
    /\ ret.value.total_score = 300
    /\ ret.value.mouth_diff = 100
    /\ ret.value.assessment = "Significant Asymmetry"

\* the geometry of the six pixel points a result reports; the two offsets
\* are doubled, which keeps the halves of a mean of two integers integral
FaceWidthOf(coords) == Abs(coords[2][1] - coords[1][1])
NoseOffsetRaw2(coords) == 2 * coords[3][1] - (coords[1][1] + coords[2][1])
PositionOffset2(coords, image_width) == Abs((coords[1][1] + coords[2][1]) - image_width)
EyeDiffRaw(coords) == coords[1][2] - coords[2][2]
MouthDiffRaw(coords) == coords[5][2] - coords[6][2]
StabilityOf(coords) == Abs(EyeDiffRaw(coords)) + Abs(MouthDiffRaw(coords))

WidthInRange(coords) == 120 <= FaceWidthOf(coords) /\ FaceWidthOf(coords) <= 200
NoseCentred(coords) == Abs(NoseOffsetRaw2(coords)) < 2 * 15
FaceCentred(coords, image_width) == PositionOffset2(coords, image_width) < 2 * 60
FaceStable(coords) == StabilityOf(coords) < 25

\* C11: capture_ready is true iff 120 <= face_width <= 200 and
\* |nose_offset_raw| < 15 and |face_center_x - image_width/2| < 60 and
\* |eye_diff| + |mouth_diff| < 25; a face_width of exactly 120 or 200 is
\* ready when the other three hold, the values 15, 60 and 25 are not ready.
C11_CaptureReadyIffAllFour ==
    ValidCall =>
        /\ ret.value # None
        /\ LET coords == ret.value.landmarks_coords
               w == args.image_width
           IN  /\ ret.value.capture_ready <=>
                      (WidthInRange(coords) /\ NoseCentred(coords)
                       /\ FaceCentred(coords, w) /\ FaceStable(coords))
               /\ (FaceWidthOf(coords) \in {120, 200} /\ NoseCentred(coords)
                   /\ FaceCentred(coords, w) /\ FaceStable(coords))
                      => ret.value.capture_ready
               /\ Abs(NoseOffsetRaw2(coords)) = 2 * 15 => ~ret.value.capture_ready
               /\ PositionOffset2(coords, w) = 2 * 60 => ~ret.value.capture_ready
               /\ StabilityOf(coords) = 25 => ~ret.value.capture_ready

\* a face exactly 200 pixels wide that meets the other three conditions is
\* reported ready
C11_Witness ==
    /\ ValidCall
    /\ ret.value # None
    /\ FaceWidthOf(ret.value.landmarks_coords) = 200
    /\ ret.value.face_width = 200
    /\ ret.value.capture_ready

\* C12: each direction label depends on the sign of its raw delta only: eye
\* and mouth are "right higher" for a negative raw delta, "left higher" for
\* a positive one; nose is "shifted left" for a positive raw offset,
\* "shifted right" for a negative one; a raw delta of 0 gives "symmetrical";
\* and the reported signed value is the negation of the raw delta.
C12_DirectionIsSignOfRawDelta ==
    ValidCall =>
        /\ ret.value # None
        /\ LET coords == ret.value.landmarks_coords
               eye == EyeDiffRaw(coords)
               mouth == MouthDiffRaw(coords)
               nose2 == NoseOffsetRaw2(coords)
           IN  /\ eye < 0 <=> ret.value.eye_direction = "right higher"
               /\ eye > 0 <=> ret.value.eye_direction = "left higher"
               /\ eye = 0 <=> ret.value.eye_direction = "symmetrical"
               /\ mouth < 0 <=> ret.value.mouth_direction = "right higher"
               /\ mouth > 0 <=> ret.value.mouth_direction = "left higher"
               /\ mouth = 0 <=> ret.value.mouth_direction = "symmetrical"
               /\ nose2 > 0 <=> ret.value.nose_direction = "shifted left"
               /\ nose2 < 0 <=> ret.value.nose_direction = "shifted right"
               /\ nose2 = 0 <=> ret.value.nose_direction = "symmetrical"
               /\ ret.value.eye_diff = -10 * eye
               /\ ret.value.mouth_diff = -10 * mouth
               /\ ret.value.nose_offset = -5 * nose2

\* level eyes, the right mouth corner lower, the nose right of the eye
\* midpoint: one tie, one negative and one positive raw delta
C12_Witness ==
    /\ ValidCall
    /\ ret.value # None
    /\ EyeDiffRaw(ret.value.landmarks_coords) = 0
    /\ ret.value.eye_direction = "symmetrical"
    /\ MouthDiffRaw(ret.value.landmarks_coords) < 0
    /\ ret.value.mouth_direction = "right higher"
    /\ ret.value.mouth_diff > 0
    /\ NoseOffsetRaw2(ret.value.landmarks_coords) > 0
    /\ ret.value.nose_direction = "shifted left"
    /\ ret.value.nose_offset < 0

SemanticIndices ==
    <<LEFT_EYE_OUTER, RIGHT_EYE_OUTER, NOSE_TIP, CHIN, LEFT_MOUTH, RIGHT_MOUTH>>

\* px is the integer nearest to num / NormDen * dimension (either way at a tie)
Nearest(px, num, dimension) == 2 * Abs(px * NormDen - num * dimension) <= NormDen

\* px is num / NormDen * dimension with its fraction dropped
Truncated(px, num, dimension) ==
    IF num * dimension >= 0
    THEN px * NormDen <= num * dimension /\ num * dimension < (px + 1) * NormDen
    ELSE (px - 1) * NormDen < num * dimension /\ num * dimension <= px * NormDen

\* C15 as stated: each of the six semantic points is converted to pixel
\* coordinates by round(coord * dimension), x with the image width and y
\* with the image height.
C15_PixelsAreRounded ==
    ValidCall =>
        /\ ret.value # None
        /\ \A k \in 1..6 :
              LET landmark == args.landmarks.pt[SemanticIndices[k]]
                  p == ret.value.landmarks_coords[k]
              IN  /\ Nearest(p[1], landmark.x, args.image_width)
                  /\ Nearest(p[2], landmark.y, args.image_height)

\* C15 (amended): each of the six semantic points is converted to pixel
\* coordinates by int(coord * dimension), which drops the fraction
\* (truncation toward zero), x with the image width and y with the height.
C15_PixelsAreTruncated ==
    ValidCall =>
        /\ ret.value # None
        /\ \A k \in 1..6 :
              LET landmark == args.landmarks.pt[SemanticIndices[k]]
                  p == ret.value.landmarks_coords[k]
              IN  /\ Truncated(p[1], landmark.x, args.image_width)
                  /\ Truncated(p[2], landmark.y, args.image_height)

\* a right eye at x = 958.75 reported at 958 and a nose at x = -3.75
\* reported at -3
C15_Witness ==
    /\ ValidCall
    /\ ret.value # None
    /\ 4 * args.landmarks.pt[RIGHT_EYE_OUTER].x * args.image_width = 3835 * NormDen
    /\ ret.value.landmarks_coords[2][1] = 958
    /\ 4 * args.landmarks.pt[NOSE_TIP].x * args.image_width = -15 * NormDen
    /\ ret.value.landmarks_coords[3][1] = -3

(***************************************************************************)
(* Claims about the composer (checked under SpecCalls)                     *)
(***************************************************************************)
ComposeReturned ==
    /\ args # None
    /\ args.fn = "compose"
    /\ ret # None

\* column i equals column w-1-i for every i
Symmetric(frame) ==
    \A i \in 1..Len(frame.cols) : frame.cols[i] = frame.cols[Len(frame.cols) + 1 - i]

\* the horizontal flip of a frame, column by column
Mirrored(frame) ==
    [frame EXCEPT !.cols = [i \in 1..Len(frame.cols) |->
                               frame.cols[Len(frame.cols) + 1 - i]]]

\* C13: composing from a perfectly left-right symmetric frame with axis_x
\* exactly the horizontal midpoint of the image yields a left-symmetric and
\* a right-symmetric composite that are both pixel-identical, before
\* encoding, to the de-mirrored original.
C13_SymmetricFrameRoundTrip ==
    (ComposeReturned /\ Symmetric(args.frame)
     /\ 2 * args.face_center_x = 100 * Len(args.frame.cols)) =>
        /\ ret.value["original_image"].image = Mirrored(args.frame)
        /\ ret.value["left_symmetric_image"].image = Mirrored(args.frame)
        /\ ret.value["right_symmetric_image"].image = Mirrored(args.frame)

\* the integer column the composer mirrors about
AxisColumn == IF args.face_center_x >= 0 THEN args.face_center_x \div 100
              ELSE -((-args.face_center_x) \div 100)

\* C14: for any axis_x, below 0 or at or beyond the frame width included,
\* every column index compose reads or overwrites lies in [0, width), and
\* with an out-of-range axis no column is overwritten.
C14_NoOutOfRangeColumnAccess ==
    (args # None /\ args.fn = "compose") =>
        LET w == Len(args.frame.cols)
        IN  /\ left_accesses(w, AxisColumn) \subseteq 0 .. (w - 1)
            /\ right_accesses(w, AxisColumn) \subseteq 0 .. (w - 1)
            /\ (ret # None /\ (AxisColumn < 0 \/ AxisColumn >= w)) =>
                  /\ ret.value["left_symmetric_image"].image = Mirrored(args.frame)
                  /\ ret.value["right_symmetric_image"].image = Mirrored(args.frame)

\* a frame wider than the band, all columns different, composed with an
\* axis three columns beyond its width: the right-hand loop runs over
\* columns of the frame, line 165 rejects each mirror column, and both
\* composites are the de-mirrored frame
C14_Witness ==
    /\ ComposeReturned
    /\ Len(args.frame.cols) > 2 * BandWidth
    /\ ~Symmetric(args.frame)
    /\ AxisColumn = Len(args.frame.cols) + 3
    /\ left_accesses(Len(args.frame.cols), AxisColumn) = {}
    /\ right_accesses(Len(args.frame.cols), AxisColumn) = {}
    /\ ret.value["left_symmetric_image"].image = Mirrored(args.frame)
    /\ ret.value["right_symmetric_image"].image = Mirrored(args.frame)

(***************************************************************************)
(* Claims about the sessions (checked under Spec; C5 and C7, which speak   *)
(* of a session's earlier capture, under SpecHist)                         *)
(***************************************************************************)
IsResult(d) == "total_score" \in DOMAIN d
Restrict(d, keys) == [k \in DOMAIN d \cap keys |-> d[k]]
CacheEmpty == last_frame_data.frame = None \/ last_frame_data.landmarks = None

\* what a capture request returns in the current state
CaptureReturn == manual_capture(last_frame_data, captured_images, TRUE).response

\* a step of the coroutine of connection s, or of its client
StepOf(s) == pc'[s] # pc[s] \/ conn'[s] # conn[s]

\* the coroutine of connection s ends
Ends(s) == pc[s] # "idle" /\ pc'[s] = "idle"

\* C1: two concurrent sessions never see each other's state: while session
\* a is open, no step of another session (its frames, its captures, its
\* disconnect) changes what a's next capture request returns; so whatever is
\* delivered to a is built from a's own frames and captures only.
C1_SessionsIsolated ==
    [][\A a \in Sessions :
          (pc[a] # "idle" /\ ~StepOf(a)) => CaptureReturn' = CaptureReturn]_vars

AnalysisOf(m) ==
    analyze_face_asymmetry_mediapipe(m.faces, WidthOf(m.frame), HeightOf(m.frame))

Detected == { m \in FrameMsgs : m.decodable /\ m.faces # None }

\* C2: the cached frame and the cached result are both empty or both set;
\* when set they are the frame and the analysis of one and the same frame
\* message; and a capture result is composed from such a frame with the
\* face-center x of that frame's own analysis.
C2_CacheConsistent ==
    /\ (last_frame_data.frame = None) <=> (last_frame_data.landmarks = None)
    /\ last_frame_data.frame # None =>
          \E m \in Detected :
              /\ last_frame_data.frame = m.frame
              /\ Restrict(last_frame_data.landmarks, AnalysisKeys) = AnalysisOf(m)
    /\ \A s \in Sessions :
          (pc[s] = "send_capture" /\ IsResult(out[s])) =>
              \E m \in Detected :
                  /\ AnalysisOf(m) # None
                  /\ Restrict(out[s], AnalysisKeys) = AnalysisOf(m)
                  /\ Restrict(out[s], ImageKeys) =
                        create_symmetry_images_simple(
                            m.frame, AnalysisOf(m)["accurate_center_x"])

\* a capture answered from the second frame, which was analysed after a
\* capture of the first (the cached result still carries the older images)
C2_Witness ==
    \E s \in Sessions :
        /\ pc[s] = "send_capture"
        /\ IsResult(out[s])
        /\ last_frame_data.frame = FrameB
        /\ "original_image" \in DOMAIN last_frame_data.landmarks
        /\ last_frame_data.landmarks["original_image"] = encode_image(original_of(FrameA))
        /\ out[s]["original_image"] = encode_image(original_of(FrameB))

\* C3: a capture request made when no frame/result is cached returns the
\* "nothing to capture" error and changes no state: cached frame, cached
\* result and captured images are empty before and after it.
C3_NothingToCapture ==
    [][\A s \in Sessions :
          (OnCaptureRequest(s) /\ CacheEmpty) =>
              /\ pc'[s] = "send_capture"
              /\ out'[s] = NothingToCapture
              /\ last_frame_data = EmptyCache
              /\ captured_images = EmptyDict
              /\ last_frame_data' = EmptyCache
              /\ captured_images' = EmptyDict]_vars

\* the capture request of a connection is answered with the error while no
\* other connection is open and nothing is cached
C3_Witness ==
    \E s \in Sessions :
        /\ pc[s] = "send_capture"
        /\ req[s] = CaptureRequest
        /\ out[s] = NothingToCapture
        /\ \A t \in Sessions \ {s} : pc[t] = "idle"
        /\ last_frame_data = EmptyCache
        /\ captured_images = EmptyDict

\* a frame message is analysed and its result cached
FrameAnalysed == \E s \in Sessions : OnFrame(s) /\ IsResult(out'[s])

\* C4: when a session ends, normally or by an exception, the cached frame,
\* the cached result and the captured images are cleared; they stay empty
\* until a frame is analysed, and a capture request made while they are
\* empty returns the "nothing to capture" error.
C4_SessionEndClears ==
    [][/\ \A s \in Sessions :
             Ends(s) => /\ last_frame_data' = EmptyCache
                        /\ captured_images' = EmptyDict
                        /\ CaptureReturn' = NothingToCapture
       /\ (last_frame_data = EmptyCache /\ captured_images = EmptyDict
           /\ ~FrameAnalysed)
             => (last_frame_data' = EmptyCache /\ captured_images' = EmptyDict)
       /\ \A s \in Sessions :
             (OnCaptureRequest(s) /\ last_frame_data = EmptyCache /\ pc'[s] # "idle")
                 => out'[s] = NothingToCapture]_vars

\* a frame was analysed for connection t, whose result is still being sent;
\* then the session of connection s ended: everything is empty again and a
\* capture request made now returns the error
C4_Witness ==
    \E s, t \in Sessions :
        /\ s # t
        /\ pc[s] = "idle"
        /\ pc[t] = "send_frame"
        /\ IsResult(out[t])
        /\ last_frame_data = EmptyCache
        /\ captured_images = EmptyDict
        /\ CaptureReturn = NothingToCapture

\* the images of the most recent capture of connection s
OwnCapture(s) == IF hist[s] = None THEN EmptyDict ELSE hist[s].images

\* C5: every frame result delivered to a session carries the three images
\* of the most recent capture of that session, unchanged, and no image
\* fields before its first capture.
C5_FrameResultsCarryOwnCapture ==
    \A s \in Sessions :
        (pc[s] = "send_frame" /\ IsResult(out[s])) =>
            Restrict(out[s], ImageKeys) = OwnCapture(s)

\* C6: no error terminates the session: the coroutine of a connection ends
\* only when its client has closed the connection, never because frame
\* processing or capture composition raised.
C6_NoErrorEndsSession ==
    [][\A s \in Sessions : Ends(s) => ~conn[s]]_vars

\* C7: a second capture request of a session, answered before any new frame
\* is analysed, returns the same result record as the first and leaves the
\* cached frame, cached result and captured images as the first left them.
C7_SecondCaptureIdempotent ==
    [][\A s \in Sessions :
          (RecordCaptureRequest(s) /\ pc'[s] = "send_capture"
           /\ hist[s] # None /\ hist[s].clean) =>
              /\ out'[s] = hist[s].response
              /\ captured_images' = hist[s].images
              /\ last_frame_data' = hist[s].cache]_vars

\* C10: a landmark set with fewer than 468 points, the empty one included,
\* makes analyze return None, and the frame handler answers that frame with
\* a structured error that carries no analysis field; an absent landmark set
\* is answered with the no-face error.
C10_InsufficientLandmarksIsError ==
    \A s \in Sessions :
        (pc[s] = "send_frame" /\ req[s].kind = "frame" /\ USE_MEDIAPIPE) =>
            /\ req[s].faces = None =>
                  /\ AnalysisOf(req[s]) = None
                  /\ out[s] = NoFaceFound
            /\ (req[s].faces # None /\ req[s].faces.n < MinLandmarks) =>
                  /\ AnalysisOf(req[s]) = None
                  /\ out[s] = AnalysisFailed
                  /\ DOMAIN out[s] \cap AnalysisKeys = {}
                  /\ DOMAIN out[s] = {"error"}

\* a frame with 467 landmarks is being answered
C10_Witness ==
    \E s \in Sessions :
        /\ pc[s] = "send_frame"
        /\ req[s].kind = "frame"
        /\ req[s].faces # None
        /\ req[s].faces.n = MinLandmarks - 1
        /\ out[s] = AnalysisFailed

\* connection s receives a frame message and goes to answer it with a
\* structured error
FailedFrame(s) ==
    /\ pc[s] = "receive"
    /\ pc'[s] \in {"send_frame", "send_except"}
    /\ req'[s] \in FrameMsgs
    /\ ~IsResult(out'[s])

\* C16: a frame message that fails (no face, fewer than 468 landmarks,
\* detector unavailable, decode or processing exception) leaves the cached
\* frame, the cached result and the captured images exactly as they were;
\* so a capture request after it composes from the frame that was cached
\* before it, and the following frame finds the state the failed one found
\* (lines 693-702 and 713-726 read nothing else that outlives a message).
C16_FailedFrameChangesNothing ==
    [][\A s \in Sessions :
          FailedFrame(s) =>
              /\ last_frame_data' = last_frame_data
              /\ captured_images' = captured_images
              /\ USE_MEDIAPIPE' = USE_MEDIAPIPE]_vars

\* the only open connection is being sent the no-face error for its latest
\* frame, while the frame analysed before it and the images captured from
\* it are still in place and a capture request would return them
C16_Witness ==
    \E s \in Sessions :
        /\ pc[s] = "send_frame"
        /\ req[s].kind = "frame"
        /\ req[s].faces = None
        /\ out[s] = NoFaceFound
        /\ \A t \in Sessions \ {s} : pc[t] = "idle"
        /\ last_frame_data.frame = FrameA
        /\ captured_images = create_symmetry_images_simple(
                                 FrameA, last_frame_data.landmarks["accurate_center_x"])
        /\ IsResult(CaptureReturn)
        /\ Restrict(CaptureReturn, ImageKeys) = captured_images

\* C17: while the session is open the handler sends exactly one response (a
\* result record or a structured error) for each message it receives, and
\* sends it before it receives the next message: a received message takes
\* the coroutine to a send of its response, a send on an open connection
\* takes it back to receive, and no message is received in between.
C17_OneResponsePerMessage ==
    [][\A s \in Sessions :
          /\ (pc[s] = "receive" /\ conn[s] /\ pc'[s] # "receive") =>
                 /\ pc'[s] \in SendStates
                 /\ req'[s] # None
                 /\ IsResult(out'[s]) \/ DOMAIN out'[s] = {"error"}
          /\ (pc[s] \in SendStates /\ conn[s] /\ pc'[s] # pc[s]) =>
                 /\ pc'[s] = "receive"
                 /\ req'[s] = None
          /\ pc[s] \in SendStates => req'[s] \in {req[s], None}]_vars

====
